---- MODULE Spec2Model ----
(***************************************************************************)
(* giscus-bot: the GitHub Discussions publisher (src/src/core/publisher.ts) *)
(* and the publication sequence built on it.                               *)
(*                                                                         *)
(* Text is modelled as sequences of one-character strings, so that         *)
(* startsWith, split, slice, trim and toLowerCase are computed character   *)
(* by character.  Fixed fragments of a message are single tokens.          *)
(*                                                                         *)
(* The remote store (GitHub Discussions) is the variable discussions: the  *)
(* sequence of discussions in creation order; a discussion's node id is    *)
(* its position.  Writes are visible to the next read.                     *)
(***************************************************************************)
EXTENDS Integers, Sequences, FiniteSets, TLC

VARIABLES
  discussions,  \* remote: Seq of [repo, title, body, categoryId, comments]
  envToken,     \* process.env.GISCUS_BOT_GITHUB_TOKEN
  pc,           \* per invocation: the step it is at
  req,          \* per invocation: the PublicationRequest
  disc,         \* per invocation: the located-or-created discussion {id, url}
  repoInfo,     \* per invocation: result of getRepoInfo
  scanned,      \* per invocation: result of getDiscussionBotComments
  todo,         \* per invocation: personas still to be written, in order
  published,    \* per invocation: persona names written in this call
  skipped,      \* per invocation: persona names found in the scanned set
  err,          \* per invocation: the error that ended it
  calls,        \* per invocation: the remote requests issued, in order
  known,        \* per invocation: id an earlier completed call returned for its key
  located,      \* (repo, title) -> id returned by the first completed find-or-create
  ncalls,       \* number of invocations started
  crashed,      \* the (owner, repo, title) of the invocations interrupted
  scanLabel,    \* scanner harness: the label prefix last scanned for
  scanPage,     \* scanner harness: the comments of one discussion, in remote order
  scanMeta,     \* scanner harness: how each of these comments was made
  scanOut,      \* scanner harness: {} or {names}, names the last scan's result
  run,          \* one run of the action: its trigger, files found and files selected
  cli           \* one run of the CLI's generate command: options, config, outcome

vars == <<discussions, envToken, pc, req, disc, repoInfo, scanned, todo,
          published, skipped, err, calls, known, located, ncalls, crashed,
          scanLabel, scanPage, scanMeta, scanOut, run, cli>>

sysVars == <<discussions, envToken, pc, req, disc, repoInfo, scanned, todo,
             published, skipped, err, calls, known, located, ncalls, crashed>>

scanVars == <<scanLabel, scanPage, scanMeta, scanOut>>

hostVars == <<run, cli>>

----------------------------------------------------------------------------
(* Bounds of the model *)

MaxCalls == 2        \* invocations started in one behaviour of Spec
MaxTail == 1         \* length of the free text after a comment's head
MaxPage == 2         \* comments on the scanner harness's page
WindowCalls == 7     \* invocations started in one behaviour of SpecWindow
PageCalls == 2       \* invocations started in one behaviour of SpecPage
PostsPerRun == 3     \* posts selected in one run of the action (limits.postsPerRun)
ConcCalls == 2       \* invocations started in one behaviour of SpecConc
EditCalls == 2       \* invocations started in one behaviour of SpecEdit
MaxCategories == 2   \* discussion categories of a repository of SpecCat
CatCalls == 1        \* invocations started in one behaviour of SpecCat
DupCalls == 3        \* invocations started in one behaviour of SpecDup
MaxPostsPerRun == 2  \* largest limits.postsPerRun of a run of SpecAction
MaxCommits == 2      \* commits of one push of SpecAction

(* Program constants *)

SearchFirst == 5     \* search(..., first: 5)
CommentsFirst == 100 \* comments(first: 100)
CategoriesFirst == 25 \* discussionCategories(first: 25)

UNDEF == "undefined"
Null == [id |-> 0, url |-> 0]

----------------------------------------------------------------------------
(* String helpers (JavaScript String methods on character sequences) *)

WhiteSpace == {" ", "\t", "\n", "\r"}

\* s.startsWith(p)
StartsWith(s, p) == Len(p) <= Len(s) /\ SubSeq(s, 1, Len(p)) = p

\* s.slice(n), n >= 0
Slice(s, n) == SubSeq(s, n + 1, Len(s))

\* s.split("\n")[0]
RECURSIVE FirstLine(_)
FirstLine(s) ==
  IF s = <<>> \/ Head(s) = "\n" THEN <<>> ELSE <<Head(s)>> \o FirstLine(Tail(s))

RECURSIVE TrimStart(_)
TrimStart(s) ==
  IF s # <<>> /\ Head(s) \in WhiteSpace THEN TrimStart(Tail(s)) ELSE s

RECURSIVE TrimEnd(_)
TrimEnd(s) ==
  IF s # <<>> /\ s[Len(s)] \in WhiteSpace THEN TrimEnd(SubSeq(s, 1, Len(s) - 1)) ELSE s

\* s.trim()
Trim(s) == TrimEnd(TrimStart(s))

UpperToLower ==
  [c \in {"G", "B", "N", "E"} |->
     CASE c = "G" -> "g" [] c = "B" -> "b" [] c = "N" -> "n" [] c = "E" -> "e"]

\* s.toLowerCase()
ToLowerCase(s) ==
  [i \in 1..Len(s) |-> IF s[i] \in DOMAIN UpperToLower THEN UpperToLower[s[i]] ELSE s[i]]

\* names.join(sep)
RECURSIVE Join(_, _)
Join(names, sep) ==
  IF names = <<>> THEN <<>>
  ELSE IF Len(names) = 1 THEN names[1]
  ELSE names[1] \o sep \o Join(Tail(names), sep)

\* arr.slice(0, n): what a connection with first: n returns
FirstN(s, n) == SubSeq(s, 1, IF Len(s) < n THEN Len(s) ELSE n)

\* s.includes(t)
Includes(s, t) ==
  \E i \in 0..(Len(s) - Len(t)) : SubSeq(s, i + 1, i + Len(t)) = t

Range(s) == {s[i] : i \in DOMAIN s}

----------------------------------------------------------------------------
(* The remote repositories: node ids and discussion categories.  GitHub    *)
(* allows a repository at most 25 discussion categories.                   *)

General == <<"G", "e", "n">>
generalLower == <<"g", "e", "n">>
BlogComments == <<"B", "l", "o", "g">>
Nonexistent == <<"N", "o", "n", "e">>

Blog == <<"user", "blog">>
Notes == <<"user", "notes">>
Repos == {Blog, Notes}

RepoId(ownerRepo) == <<"R_", ownerRepo[1], ownerRepo[2]>>

\* the owner of the repositories named by their list of category names
Lab == "lab"
CategoryIds == <<"C_1", "C_2", "C_3", "C_4">>

\* the discussion categories a repository has, in remote order
RemoteCategories(ownerRepo) ==
  IF ownerRepo[1] = Lab
  THEN [i \in DOMAIN ownerRepo[2] |-> [id |-> CategoryIds[i], name |-> ownerRepo[2][i]]]
  ELSE IF ownerRepo = Blog
  THEN <<[id |-> "C_11", name |-> General], [id |-> "C_12", name |-> BlogComments]>>
  ELSE <<[id |-> "C_21", name |-> BlogComments], [id |-> "C_22", name |-> General]>>

\* repository(owner, name) { id discussionCategories(first: 25) { nodes { id name } } }
Repository(ownerRepo) ==
  [id |-> RepoId(ownerRepo),
   discussionCategories |-> FirstN(RemoteCategories(ownerRepo), CategoriesFirst)]

Url(id) == <<"url", id>>

----------------------------------------------------------------------------
(* publisher.ts, the parts computed locally *)

\* createClient: TRUE when it throws "GitHub token is required"
createClientThrowsMutNever(token, env) == FALSE

createClientThrows(token, env) ==
  LET authToken == IF token # UNDEF THEN token ELSE env
  IN authToken = UNDEF \/ authToken = ""

QuoteOpen == <<"Discussion category \"">>
QuoteClose == <<"\" not found. Available: ">>
CommaSpace == <<",", " ">>

\* getRepoInfo after the repository query returned result
getRepoInfoMutFirstName(result, categoryName) ==
  LET nodes == result.discussionCategories
      hit == {i \in DOMAIN nodes :
                ToLowerCase(nodes[i].name) = ToLowerCase(categoryName)}
  IN IF hit = {}
     THEN [ok |-> FALSE, repoId |-> <<>>, categoryId |-> "",
           message |-> QuoteOpen \o categoryName \o QuoteClose
                       \o (IF nodes = <<>> THEN <<>> ELSE nodes[1].name)]
     ELSE [ok |-> TRUE, repoId |-> result.id,
           categoryId |-> nodes[CHOOSE i \in hit : \A j \in hit : i <= j].id,
           message |-> <<>>]

getRepoInfoMutLast(result, categoryName) ==
  LET nodes == result.discussionCategories
      hit == {i \in DOMAIN nodes :
                ToLowerCase(nodes[i].name) = ToLowerCase(categoryName)}
  IN IF hit = {}
     THEN [ok |-> FALSE, repoId |-> <<>>, categoryId |-> "",
           message |-> QuoteOpen \o categoryName \o QuoteClose
                       \o Join([i \in DOMAIN nodes |-> nodes[i].name], CommaSpace)]
     ELSE [ok |-> TRUE, repoId |-> result.id,
           categoryId |-> nodes[CHOOSE i \in hit : \A j \in hit : i >= j].id,
           message |-> <<>>]

getRepoInfo(result, categoryName) ==
  LET nodes == result.discussionCategories
      hit == {i \in DOMAIN nodes :
                ToLowerCase(nodes[i].name) = ToLowerCase(categoryName)}
  IN IF hit = {}
     THEN [ok |-> FALSE, repoId |-> <<>>, categoryId |-> "",
           message |-> QuoteOpen \o categoryName \o QuoteClose
                       \o Join([i \in DOMAIN nodes |-> nodes[i].name], CommaSpace)]
     ELSE [ok |-> TRUE, repoId |-> result.id,
           categoryId |-> nodes[CHOOSE i \in hit : \A j \in hit : i <= j].id,
           message |-> <<>>]

\* words of title occur in t as one phrase ("<title>" in:title)
PhraseIn(title, t) ==
  \E i \in 0..(Len(t) - Len(title)) : SubSeq(t, i + 1, i + Len(title)) = title

\* findDiscussion after the search returned nodes: nodes.find(d => d.title === title)
RECURSIVE findDiscussionMutPhrase(_, _)
findDiscussionMutPhrase(nodes, title) ==
  IF nodes = <<>> THEN Null
  ELSE IF PhraseIn(title, Head(nodes).title)
       THEN [id |-> Head(nodes).id, url |-> Head(nodes).url]
       ELSE findDiscussionMutPhrase(Tail(nodes), title)

findDiscussionMutLast(nodes, title) ==
  LET hit == {i \in DOMAIN nodes : nodes[i].title = title}
  IN IF hit = {} THEN Null
     ELSE LET i == CHOOSE k \in hit : \A j \in hit : k >= j
          IN [id |-> nodes[i].id, url |-> nodes[i].url]

findDiscussionMutFirst(nodes, title) ==
  IF nodes = <<>> THEN Null ELSE [id |-> nodes[1].id, url |-> nodes[1].url]

RECURSIVE findDiscussion(_, _)
findDiscussion(nodes, title) ==
  IF nodes = <<>> THEN Null
  ELSE IF Head(nodes).title = title
       THEN [id |-> Head(nodes).id, url |-> Head(nodes).url]
       ELSE findDiscussion(Tail(nodes), title)

PersonaSep == <<" ", "·", " ", "P", "e", "r", "s", "o", "n", "a", ":", " ">>

\* getDiscussionBotComments after the comments query returned nodes (bodies):
\* the names the loop over the nodes adds to the Set personas
getDiscussionBotCommentsMutNoTrim(nodes, labelPrefix) ==
  LET prefix == labelPrefix \o PersonaSep
      name(body) == Slice(FirstLine(body), Len(prefix))
  IN {name(nodes[i]) :
        i \in {k \in DOMAIN nodes :
                 StartsWith(nodes[k], prefix) /\ name(nodes[k]) # <<>>}}

getDiscussionBotCommentsMutBreak(nodes, labelPrefix) ==
  LET prefix == labelPrefix \o PersonaSep
      name(body) == Trim(Slice(FirstLine(body), Len(prefix)))
  IN {name(nodes[i]) :
        i \in {k \in DOMAIN nodes :
                 /\ \A j \in 1..k : StartsWith(nodes[j], prefix)
                 /\ name(nodes[k]) # <<>>}}

getDiscussionBotCommentsMutSlice(nodes, labelPrefix) ==
  LET prefix == labelPrefix \o PersonaSep
      name(body) == Trim(Slice(FirstLine(body), Len(labelPrefix)))
  IN {name(nodes[i]) :
        i \in {k \in DOMAIN nodes :
                 StartsWith(nodes[k], prefix) /\ name(nodes[k]) # <<>>}}

getDiscussionBotComments(nodes, labelPrefix) ==
  LET prefix == labelPrefix \o PersonaSep
      name(body) == Trim(Slice(FirstLine(body), Len(prefix)))
  IN {name(nodes[i]) :
        i \in {k \in DOMAIN nodes :
                 StartsWith(nodes[k], prefix) /\ name(nodes[k]) # <<>>}}

----------------------------------------------------------------------------
(* The remote store's answers and mutations *)

\* ids of the discussions the search "repo:<owner>/<repo> "<title>" in:title" matches
SearchHits(store, ownerRepo, title) ==
  {i \in DOMAIN store :
     store[i].repoId = RepoId(ownerRepo) /\ PhraseIn(title, store[i].title)}

Min(a, b) == IF a < b THEN a ELSE b

\* the result pages search may return: all hits when there are at most
\* SearchFirst of them, else SearchFirst of them; the ranking is the remote's
SearchPages(store, ownerRepo, title) ==
  LET hits == SearchHits(store, ownerRepo, title)
      k == Min(Cardinality(hits), SearchFirst)
  IN {s \in [1..k -> hits] : \A i, j \in 1..k : i # j => s[i] # s[j]}

SearchNodes(store, page) ==
  [i \in DOMAIN page |-> [id |-> page[i], title |-> store[page[i]].title,
                          url |-> Url(page[i])]]

\* node(id) { comments(first: 100) { nodes { body } } }: top-level comments
TopLevelBodies(comments) ==
  LET IsTop(c) == c.replyTo = 0
      top == SelectSeq(comments, IsTop)
  IN [i \in DOMAIN top |-> top[i].body]

CommentNodes(store, id) == FirstN(TopLevelBodies(store[id].comments), CommentsFirst)

\* mutation createDiscussion(input: {repositoryId, categoryId, title, body})
createDiscussion(store, repoId, categoryId, title, body) ==
  Append(store, [repoId |-> repoId, title |-> title, body |-> body,
                 categoryId |-> categoryId, comments |-> <<>>])

\* mutation addDiscussionComment(input: {discussionId, body})
addCommentMutTwice(store, discussionId, body) ==
  [store EXCEPT ![discussionId].comments =
     @ \o <<[body |-> body, replyTo |-> 0], [body |-> body, replyTo |-> 0]>>]

addCommentMutReplace(store, discussionId, body) ==
  [store EXCEPT ![discussionId].comments = <<[body |-> body, replyTo |-> 0]>>]

addCommentMutReply(store, discussionId, body) ==
  [store EXCEPT ![discussionId].comments =
     Append(@, [body |-> body, replyTo |-> Len(@)])]

addComment(store, discussionId, body) ==
  [store EXCEPT ![discussionId].comments = Append(@, [body |-> body, replyTo |-> 0])]

\* the Orchestrator's formatting contract (spec 4.5)
FormatComment(labelPrefix, personaName, text) ==
  labelPrefix \o PersonaSep \o personaName \o <<"\n", "\n">> \o text

----------------------------------------------------------------------------
(* Invocations of the publication sequence *)

Procs == {1, 2}
SeqProcs == {1}

Active == {"LOCATING", "RESOLVING", "CREATING", "SCANNING", "PUBLISHING"}
Terminal == {"IDLE", "DONE", "FAILED", "ABORTED"}

NoErr == [kind |-> "none", message |-> <<>>]
NoRepoInfo == [ok |-> FALSE, repoId |-> <<>>, categoryId |-> "", message |-> <<>>]

MyPost == <<"My", "Post">>
MyPost2 == <<"My", "Post", "2">>
Titles == {MyPost, MyPost2}

LabelAI == <<"#", "A", "I">>
LabelBot == <<"#", "B">>

PersonaA == [name |-> <<"A">>, text |-> <<"h", "i">>]
PersonaB == [name |-> <<"B", " ", "b">>, text |-> <<"o", "k">>]
PersonaC == [name |-> <<"C">>, text |-> <<"\n", "c">>]
PersonaLists == {<<>>, <<PersonaA>>, <<PersonaB, PersonaA>>, <<PersonaA, PersonaB, PersonaC>>}

NoReq ==
  [owner |-> "", repo |-> "", categoryName |-> <<>>, title |-> <<>>, body |-> <<>>,
   labelPrefix |-> <<>>, personas |-> <<>>, token |-> UNDEF]

\* the requests an invocation of Spec is made with
Requests ==
  {[owner |-> r[1], repo |-> r[2], categoryName |-> c, title |-> t,
    body |-> <<"link">>, labelPrefix |-> LabelAI, personas |-> ps, token |-> tk] :
     r \in Repos, c \in {generalLower, Nonexistent}, t \in Titles,
     ps \in PersonaLists, tk \in {"ghp", UNDEF}}

Key(r) == <<r.owner, r.repo, r.title>>

Call(op, p, id, persona) ==
  [op |-> op, owner |-> req[p].owner, repo |-> req[p].repo, title |-> req[p].title,
   id |-> id, persona |-> persona]

\* the personas of the request found in the scanned set, and those not found (spec 4.6)
PersonasSkipped(personas, scannedSet) ==
  LET In(x) == x.name \in scannedSet IN SelectSeq(personas, In)

PersonasToWrite(personas, scannedSet) ==
  LET Out(x) == x.name \notin scannedSet IN SelectSeq(personas, Out)

Names(personas) == [i \in DOMAIN personas |-> personas[i].name]

InitSys ==
  /\ discussions = <<>>
  /\ envToken = UNDEF
  /\ pc = [p \in Procs |-> "IDLE"]
  /\ req = [p \in Procs |-> NoReq]
  /\ disc = [p \in Procs |-> Null]
  /\ repoInfo = [p \in Procs |-> NoRepoInfo]
  /\ scanned = [p \in Procs |-> {}]
  /\ todo = [p \in Procs |-> <<>>]
  /\ published = [p \in Procs |-> <<>>]
  /\ skipped = [p \in Procs |-> <<>>]
  /\ err = [p \in Procs |-> NoErr]
  /\ calls = [p \in Procs |-> <<>>]
  /\ known = [p \in Procs |-> 0]
  /\ located = [k \in {} |-> 0]
  /\ ncalls = 0
  /\ crashed = {}

NoRun == [step |-> "idle", trigger |-> "none", commits |-> <<>>, found |-> <<>>,
          postsPerRun |-> 0, selected |-> <<>>, failed |-> FALSE]

NoCli == [step |-> "idle", optRepo |-> "", cfgRepo |-> "", dryRun |-> FALSE,
          rejected |-> FALSE, exitCode |-> 0, provider |-> FALSE, generate |-> FALSE]

InitHost ==
  /\ run = NoRun
  /\ cli = NoCli

InitScan ==
  /\ scanLabel = <<>>
  /\ scanPage = <<>>
  /\ scanMeta = <<>>
  /\ scanOut = {}

Init == InitSys /\ InitScan /\ InitHost

LocatedId(k) == IF k \in DOMAIN located THEN located[k] ELSE 0

\* the first completed find-or-create for a key fixes the id later calls must return
Locates(k, id) ==
  IF k \in DOMAIN located THEN located
  ELSE [x \in DOMAIN located \cup {k} |-> IF x = k THEN id ELSE located[x]]

\* an invocation of the publication with request r begins
Invoke(p, r, limit) ==
  /\ pc[p] \in Terminal
  /\ ncalls < limit
  /\ ncalls' = ncalls + 1
  /\ pc' = [pc EXCEPT ![p] = "LOCATING"]
  /\ req' = [req EXCEPT ![p] = r]
  /\ disc' = [disc EXCEPT ![p] = Null]
  /\ repoInfo' = [repoInfo EXCEPT ![p] = NoRepoInfo]
  /\ scanned' = [scanned EXCEPT ![p] = {}]
  /\ todo' = [todo EXCEPT ![p] = <<>>]
  /\ published' = [published EXCEPT ![p] = <<>>]
  /\ skipped' = [skipped EXCEPT ![p] = <<>>]
  /\ err' = [err EXCEPT ![p] = NoErr]
  /\ calls' = [calls EXCEPT ![p] = <<>>]
  /\ known' = [known EXCEPT ![p] = LocatedId(Key(r))]
  /\ UNCHANGED <<discussions, envToken, located, crashed, scanVars, hostVars>>

\* a caller invokes the publication with request r, no other invocation running
Start(p, r, limit) ==
  /\ \A q \in Procs : pc[q] \in Terminal
  /\ Invoke(p, r, limit)

\* findOrCreateDiscussion: if (existing) { return existing; }
ReturnsExistingMutNever(existing) == FALSE

ReturnsExisting(existing) == existing # Null

\* findOrCreateDiscussion: const existing = await findDiscussion(...)
Locate(p) ==
  /\ pc[p] = "LOCATING"
  /\ IF createClientThrows(req[p].token, envToken)
     THEN /\ pc' = [pc EXCEPT ![p] = "FAILED"]
          /\ err' = [err EXCEPT ![p] = [kind |-> "token", message |-> <<>>]]
          /\ UNCHANGED <<disc, calls, located>>
     ELSE \E page \in SearchPages(discussions, <<req[p].owner, req[p].repo>>, req[p].title) :
            LET existing == findDiscussion(SearchNodes(discussions, page), req[p].title)
            IN /\ calls' = [calls EXCEPT ![p] = Append(@, Call("search", p, existing.id, <<>>))]
               /\ IF ReturnsExisting(existing)
                  THEN /\ disc' = [disc EXCEPT ![p] = existing]
                       /\ pc' = [pc EXCEPT ![p] = "SCANNING"]
                       /\ located' = Locates(Key(req[p]), existing.id)
                  ELSE /\ pc' = [pc EXCEPT ![p] = "RESOLVING"]
                       /\ UNCHANGED <<disc, located>>
               /\ UNCHANGED err
  /\ UNCHANGED <<discussions, envToken, req, repoInfo, scanned, todo, published,
                 skipped, known, ncalls, crashed, scanVars, hostVars>>

\* findOrCreateDiscussion: const repoInfo = await getRepoInfo(...)
ResolveMutContinue(p) ==
  /\ pc[p] = "RESOLVING"
  /\ LET info == getRepoInfo(Repository(<<req[p].owner, req[p].repo>>),
                             req[p].categoryName)
     IN /\ calls' = [calls EXCEPT ![p] = Append(@, Call("repository", p, 0, <<>>))]
        /\ repoInfo' = [repoInfo EXCEPT ![p] = info]
        /\ pc' = [pc EXCEPT ![p] = "CREATING"]
        /\ err' = [err EXCEPT ![p] =
                     IF info.ok THEN NoErr
                     ELSE [kind |-> "category", message |-> info.message]]
  /\ UNCHANGED <<discussions, envToken, req, disc, scanned, todo, published,
                 skipped, known, located, ncalls, crashed, scanVars, hostVars>>

Resolve(p) ==
  /\ pc[p] = "RESOLVING"
  /\ IF createClientThrows(req[p].token, envToken)
     THEN /\ pc' = [pc EXCEPT ![p] = "FAILED"]
          /\ err' = [err EXCEPT ![p] = [kind |-> "token", message |-> <<>>]]
          /\ UNCHANGED <<repoInfo, calls>>
     ELSE LET info == getRepoInfo(Repository(<<req[p].owner, req[p].repo>>),
                                  req[p].categoryName)
          IN /\ calls' = [calls EXCEPT ![p] = Append(@, Call("repository", p, 0, <<>>))]
             /\ IF info.ok
                THEN /\ repoInfo' = [repoInfo EXCEPT ![p] = info]
                     /\ pc' = [pc EXCEPT ![p] = "CREATING"]
                     /\ UNCHANGED err
                ELSE /\ pc' = [pc EXCEPT ![p] = "FAILED"]
                     /\ err' = [err EXCEPT ![p] =
                                  [kind |-> "category", message |-> info.message]]
                     /\ UNCHANGED repoInfo
  /\ UNCHANGED <<discussions, envToken, req, disc, scanned, todo, published,
                 skipped, known, located, ncalls, crashed, scanVars, hostVars>>

\* findOrCreateDiscussion: return createDiscussion(repoId, categoryId, title, body)
Create(p) ==
  /\ pc[p] = "CREATING"
  /\ IF createClientThrows(req[p].token, envToken)
     THEN /\ pc' = [pc EXCEPT ![p] = "FAILED"]
          /\ err' = [err EXCEPT ![p] = [kind |-> "token", message |-> <<>>]]
          /\ UNCHANGED <<discussions, disc, calls, located>>
     ELSE LET id == Len(discussions) + 1
          IN /\ discussions' = createDiscussion(discussions, repoInfo[p].repoId,
                                  repoInfo[p].categoryId, req[p].title, req[p].body)
             /\ disc' = [disc EXCEPT ![p] = [id |-> id, url |-> Url(id)]]
             /\ calls' = [calls EXCEPT ![p] =
                            Append(@, Call("createDiscussion", p, id, <<>>))]
             /\ located' = Locates(Key(req[p]), id)
             /\ pc' = [pc EXCEPT ![p] = "SCANNING"]
             /\ UNCHANGED err
  /\ UNCHANGED <<envToken, req, repoInfo, scanned, todo, published, skipped, known,
                 ncalls, crashed, scanVars, hostVars>>

\* the Orchestrator's step 2: scan the discussion for already-posted personas
Scan(p) ==
  /\ pc[p] = "SCANNING"
  /\ IF createClientThrows(req[p].token, envToken)
     THEN /\ pc' = [pc EXCEPT ![p] = "FAILED"]
          /\ err' = [err EXCEPT ![p] = [kind |-> "token", message |-> <<>>]]
          /\ UNCHANGED <<scanned, todo, skipped, calls>>
     ELSE LET names == getDiscussionBotComments(CommentNodes(discussions, disc[p].id),
                                                req[p].labelPrefix)
              rest == PersonasToWrite(req[p].personas, names)
          IN /\ scanned' = [scanned EXCEPT ![p] = names]
             /\ skipped' = [skipped EXCEPT ![p] =
                              Names(PersonasSkipped(req[p].personas, names))]
             /\ todo' = [todo EXCEPT ![p] = rest]
             /\ calls' = [calls EXCEPT ![p] =
                            Append(@, Call("comments", p, disc[p].id, <<>>))]
             /\ pc' = [pc EXCEPT ![p] = IF rest = <<>> THEN "DONE" ELSE "PUBLISHING"]
             /\ UNCHANGED err
  /\ UNCHANGED <<discussions, envToken, req, disc, repoInfo, published, known,
                 located, ncalls, crashed, scanVars, hostVars>>

\* the Orchestrator's step 3: write one comment for the next persona not scanned
Write(p) ==
  /\ pc[p] = "PUBLISHING"
  /\ IF createClientThrows(req[p].token, envToken)
     THEN /\ pc' = [pc EXCEPT ![p] = "FAILED"]
          /\ err' = [err EXCEPT ![p] = [kind |-> "token", message |-> <<>>]]
          /\ UNCHANGED <<discussions, todo, published, calls>>
     ELSE LET persona == Head(todo[p])
          IN /\ discussions' = addComment(discussions, disc[p].id,
                                  FormatComment(req[p].labelPrefix, persona.name,
                                                persona.text))
             /\ published' = [published EXCEPT ![p] = Append(@, persona.name)]
             /\ todo' = [todo EXCEPT ![p] = Tail(@)]
             /\ calls' = [calls EXCEPT ![p] =
                            Append(@, Call("addDiscussionComment", p, disc[p].id,
                                           persona.name))]
             /\ pc' = [pc EXCEPT ![p] = IF Tail(todo[p]) = <<>> THEN "DONE"
                                        ELSE "PUBLISHING"]
             /\ UNCHANGED err
  /\ UNCHANGED <<envToken, req, disc, repoInfo, scanned, skipped, known, located,
                 ncalls, crashed, scanVars, hostVars>>

\* the pending remote request is rejected: the error surfaces to the caller
Fail(p) ==
  /\ pc[p] \in Active
  /\ ~createClientThrows(req[p].token, envToken)
  /\ pc' = [pc EXCEPT ![p] = "FAILED"]
  /\ err' = [err EXCEPT ![p] = [kind |-> "remote", message |-> <<>>]]
  /\ UNCHANGED <<discussions, envToken, req, disc, repoInfo, scanned, todo,
                 published, skipped, calls, known, located, ncalls, crashed, scanVars, hostVars>>

\* the host process is interrupted between two steps
Interrupt(p) ==
  /\ pc[p] \in Active
  /\ pc' = [pc EXCEPT ![p] = "ABORTED"]
  /\ crashed' = crashed \cup {Key(req[p])}
  /\ UNCHANGED <<discussions, envToken, req, disc, repoInfo, scanned, todo,
                 published, skipped, err, calls, known, located, ncalls, scanVars, hostVars>>

\* action.ts run(): process.env.GISCUS_BOT_GITHUB_TOKEN = githubToken, a non-empty
\* input, before the first publication
SetEnvToken ==
  /\ envToken = UNDEF
  /\ ncalls = 0
  /\ envToken' = "ghs"
  /\ UNCHANGED <<discussions, pc, req, disc, repoInfo, scanned, todo, published,
                 skipped, err, calls, known, located, ncalls, crashed, scanVars, hostVars>>

Next ==
  \/ SetEnvToken
  \/ \E p \in SeqProcs :
       \/ \E r \in Requests : Start(p, r, MaxCalls)
       \/ Locate(p)
       \/ Resolve(p)
       \/ Create(p)
       \/ Scan(p)
       \/ Write(p)
       \/ Fail(p)
       \/ Interrupt(p)

Spec == Init /\ [][Next]_vars

----------------------------------------------------------------------------
(* SpecWindow: a blog whose posts "My Post", "My Post 2", ... "My Post 6"  *)
(* are published one after another; an earlier post may be published again *)
(* at any time.  Every title contains the phrase "My Post".                *)

WindowTitles ==
  <<MyPost, MyPost2, <<"My", "Post", "3">>, <<"My", "Post", "4">>,
    <<"My", "Post", "5">>, <<"My", "Post", "6">>>>

\* the posts written so far: those already published and the next new one
PostsWritten ==
  LET done == {i \in DOMAIN WindowTitles :
                 \E d \in DOMAIN discussions : discussions[d].title = WindowTitles[i]}
  IN {i \in DOMAIN WindowTitles : \A j \in 1..(i - 1) : j \in done}

WindowRequests ==
  {[owner |-> Blog[1], repo |-> Blog[2], categoryName |-> c, title |-> WindowTitles[i],
    body |-> <<"link">>, labelPrefix |-> LabelAI,
    personas |-> IF i = 1 THEN <<PersonaA>> ELSE <<>>, token |-> "ghp"] :
     i \in PostsWritten, c \in {generalLower}}

NextWindow ==
  \E p \in SeqProcs :
    \/ \E r \in WindowRequests : Start(p, r, WindowCalls)
    \/ Locate(p)
    \/ Resolve(p)
    \/ Create(p)
    \/ Scan(p)
    \/ Write(p)
    \/ Fail(p)
    \/ Interrupt(p)

SpecWindow == Init /\ [][NextWindow]_vars

----------------------------------------------------------------------------
(* SpecRun: one run of the GitHub Action over the posts it selected.  The  *)
(* shuffle makes the order arbitrary; the selected posts are named in the  *)
(* order the loop takes them.  The configuration is the same for each.     *)

RunCategories == {generalLower, Nonexistent}
RunPersonas == {<<PersonaA>>, <<PersonaB, PersonaA>>, <<PersonaA, PersonaB, PersonaC>>}

\* generate(postContext, config, provider) publishes the i-th selected post
RunRequest(i, c, ps) ==
  [owner |-> Blog[1], repo |-> Blog[2], categoryName |-> c, title |-> WindowTitles[i],
   body |-> <<"link">>, labelPrefix |-> LabelAI, personas |-> ps, token |-> UNDEF]

\* action.ts run(): for (const file of selected) { ... await generate(...) ... }
\* inside the one try block of run(): the loop takes the next file when the
\* previous generate has returned; an error thrown by generate leaves the loop
RunStep(p) ==
  /\ envToken # UNDEF
  /\ pc[p] \in {"IDLE", "DONE"}
  /\ \E c \in RunCategories, ps \in RunPersonas :
       /\ ncalls > 0 => (c = req[p].categoryName /\ ps = req[p].personas)
       /\ Start(p, RunRequest(ncalls + 1, c, ps), PostsPerRun)

NextRun ==
  \/ SetEnvToken
  \/ \E p \in SeqProcs :
       \/ RunStep(p)
       \/ Locate(p)
       \/ Resolve(p)
       \/ Create(p)
       \/ Scan(p)
       \/ Write(p)
       \/ Fail(p)

SpecRun == Init /\ [][NextRun]_vars

----------------------------------------------------------------------------
(* SpecConc: two publications to one repository whose remote requests      *)
(* interleave (two runs at the same time); there is no lock between them.  *)

ConcRequests ==
  {[owner |-> Blog[1], repo |-> Blog[2], categoryName |-> generalLower, title |-> t,
    body |-> <<"link">>, labelPrefix |-> LabelAI, personas |-> ps, token |-> "ghp"] :
     t \in Titles, ps \in {<<PersonaA>>, <<PersonaB, PersonaA>>}}

NextConc ==
  \E p \in Procs :
    \/ \E r \in ConcRequests : Invoke(p, r, ConcCalls)
    \/ Locate(p)
    \/ Resolve(p)
    \/ Create(p)
    \/ Scan(p)
    \/ Write(p)

SpecConc == Init /\ [][NextConc]_vars

----------------------------------------------------------------------------
(* SpecEdit: one post published and published again after its link text   *)
(* or the configured category was changed.                                 *)

blogCommentsLower == ToLowerCase(BlogComments)
BodyEdited == <<"link", "v2">>

EditRequests ==
  {[owner |-> Blog[1], repo |-> Blog[2], categoryName |-> c, title |-> MyPost,
    body |-> b, labelPrefix |-> LabelAI, personas |-> ps, token |-> "ghp"] :
     c \in {generalLower, blogCommentsLower}, b \in {<<"link">>, BodyEdited},
     ps \in {<<PersonaA>>, <<PersonaB, PersonaA>>}}

NextEdit ==
  \E p \in SeqProcs :
    \/ \E r \in EditRequests : Start(p, r, EditCalls)
    \/ Locate(p)
    \/ Resolve(p)
    \/ Create(p)
    \/ Scan(p)
    \/ Write(p)
    \/ Fail(p)
    \/ Interrupt(p)

SpecEdit == Init /\ [][NextEdit]_vars

----------------------------------------------------------------------------
(* SpecCat: a post published to a repository with any list of discussion   *)
(* categories, under any spelling of the category name.                    *)

GENERAL == <<"G", "E", "N">>
LabNames == {General, generalLower, BlogComments}
LabLists == UNION {[1..n -> LabNames] : n \in 0..MaxCategories}
LabRepos == {<<Lab, l>> : l \in LabLists}

CatRequests ==
  {[owner |-> r[1], repo |-> r[2], categoryName |-> c, title |-> MyPost,
    body |-> <<"link">>, labelPrefix |-> LabelAI, personas |-> <<>>, token |-> "ghp"] :
     r \in LabRepos, c \in {General, generalLower, GENERAL, Nonexistent}}

NextCat ==
  \E p \in SeqProcs :
    \/ \E r \in CatRequests : Start(p, r, CatCalls)
    \/ Locate(p)
    \/ Resolve(p)
    \/ Create(p)
    \/ Scan(p)

SpecCat == Init /\ [][NextCat]_vars

----------------------------------------------------------------------------
(* SpecDup: one post published by two runs at the same time and published  *)
(* once more: the repository may hold two discussions with its title.      *)

DupRequests ==
  {[owner |-> Blog[1], repo |-> Blog[2], categoryName |-> generalLower,
    title |-> MyPost, body |-> <<"link">>, labelPrefix |-> LabelAI,
    personas |-> ps, token |-> "ghp"] :
     ps \in {<<PersonaA>>, <<PersonaB, PersonaA>>}}

NextDup ==
  \E p \in Procs :
    \/ \E r \in DupRequests : Invoke(p, r, DupCalls)
    \/ Locate(p)
    \/ Resolve(p)
    \/ Create(p)
    \/ Scan(p)
    \/ Write(p)

SpecDup == Init /\ [][NextDup]_vars

----------------------------------------------------------------------------
(* SpecCli: one run of the CLI's generate command, with and without        *)
(* --repo, --dry-run and a repository in the configuration file.           *)

\* !v of JavaScript for a string or undefined
Falsy(v) == v \in {UNDEF, ""}

CliRepoNames == {"user/blog", "user/notes"}

\* opts.repo: undefined when --repo is not passed
CliOptRepos == {UNDEF, ""} \cup CliRepoNames

\* github.repo of the loaded configuration; "" in the built-in defaults
CliCfgRepos == {""} \cup CliRepoNames

SplitRepo(name) == IF name = "user/blog" THEN Blog ELSE Notes

\* config.github.repo after `if (opts.repo) config.github.repo = opts.repo`
OverrideRepo(optRepo, cfgRepo) == IF ~Falsy(optRepo) THEN optRepo ELSE cfgRepo

RepoMissingMutDryRun(dryRun, repo) == Falsy(repo)

\* !opts.dryRun && !config.github.repo
RepoMissing(dryRun, repo) == ~dryRun /\ Falsy(repo)

CliRequest(name) ==
  [owner |-> SplitRepo(name)[1], repo |-> SplitRepo(name)[2],
   categoryName |-> General, title |-> MyPost, body |-> <<"link">>,
   labelPrefix |-> LabelAI, personas |-> <<PersonaA>>, token |-> UNDEF]

\* the action of the generate command up to its call of generate(): the
\* configuration is loaded, the flags are applied, the repository is
\* validated, the provider is created (which may throw)
CliGenerate(optRepo, cfgRepo, dryRun) ==
  /\ cli.step = "idle"
  /\ ncalls = 0
  /\ LET repo == OverrideRepo(optRepo, cfgRepo)
         opts == [cli EXCEPT !.optRepo = optRepo, !.cfgRepo = cfgRepo,
                             !.dryRun = dryRun]
     IN IF RepoMissing(dryRun, repo)
        THEN cli' = [opts EXCEPT !.step = "exited", !.rejected = TRUE, !.exitCode = 1]
        ELSE \/ cli' = [opts EXCEPT !.step = "generating", !.provider = TRUE,
                                    !.generate = TRUE]
             \/ cli' = [opts EXCEPT !.step = "exited", !.exitCode = 1]
  /\ UNCHANGED <<sysVars, scanVars, run>>

\* generate() reaches the publication of the post, unless it is a dry run
CliPublish(p) ==
  /\ cli.step = "generating"
  /\ ~cli.dryRun
  /\ Start(p, CliRequest(OverrideRepo(cli.optRepo, cli.cfgRepo)), 1)

\* generate() returned: the results are printed
CliDone ==
  /\ cli.step = "generating"
  /\ cli.dryRun \/ \E p \in SeqProcs : pc[p] = "DONE"
  /\ cli' = [cli EXCEPT !.step = "exited"]
  /\ UNCHANGED <<sysVars, scanVars, run>>

\* generate() threw: the catch block prints the error and exits with 1
CliCatch ==
  /\ cli.step = "generating"
  /\ \E p \in SeqProcs : pc[p] = "FAILED"
  /\ cli' = [cli EXCEPT !.step = "exited", !.exitCode = 1]
  /\ UNCHANGED <<sysVars, scanVars, run>>

NextCli ==
  \/ SetEnvToken
  \/ \E o \in CliOptRepos, c \in CliCfgRepos, d \in BOOLEAN : CliGenerate(o, c, d)
  \/ CliDone
  \/ CliCatch
  \/ \E p \in SeqProcs :
       \/ CliPublish(p)
       \/ Locate(p)
       \/ Resolve(p)
       \/ Create(p)
       \/ Scan(p)
       \/ Write(p)
       \/ Fail(p)

SpecCli == Init /\ [][NextCli]_vars

----------------------------------------------------------------------------
(* SpecAction: one run of the GitHub Action, in its automatic-trigger      *)
(* version (scan the blog directories, shuffle, take postsPerRun files) or *)
(* in its push-trigger version (the markdown files added by the push).     *)

File(dir, name, ext) == [dir |-> dir, name |-> name, ext |-> ext]

\* the files of the checkout / of the push, in directory-listing order
Files ==
  <<File(<<"_posts">>, "a", ".md"),
    File(<<"posts", "2024">>, "b", ".MDX"),
    File(<<"src", "posts">>, "c", ".mdx"),
    File(<<"docs">>, "d", ".md"),
    File(<<"blog">>, "e", ".txt"),
    File(<<"src">>, "f", ".md")>>

\* extname(entry).toLowerCase()
LowerExt(ext) ==
  CASE ext = ".MD" -> ".md"
    [] ext = ".MDX" -> ".mdx"
    [] OTHER -> ext

BLOG_DIRS == <<<<"_posts">>, <<"content">>, <<"posts">>, <<"blog">>, <<"src", "posts">>>>

\* the markdown files below dir, sub-directories included
findMarkdownFiles(dir, fs) ==
  SelectSeq(Files, LAMBDA f : /\ f \in fs
                              /\ StartsWith(f.dir, dir)
                              /\ LowerExt(f.ext) \in {".md", ".mdx"})

RECURSIVE ScanDirs(_, _)
ScanDirs(i, fs) ==
  IF i > Len(BLOG_DIRS) THEN <<>>
  ELSE findMarkdownFiles(BLOG_DIRS[i], fs) \o ScanDirs(i + 1, fs)

scanBlogPosts(fs) == ScanDirs(1, fs)

\* the values Math.floor(Math.random() * (i + 1)) of one shuffle, at 1-based
\* positions: one index in 1..i for every i
Randoms(n) == {js \in [1..n -> 1..n] : \A i \in 1..n : js[i] <= i}

\* [arr[i], arr[j]] = [arr[j], arr[i]]
Swap(arr, i, j) == [arr EXCEPT ![i] = arr[j], ![j] = arr[i]]

RECURSIVE ShuffleFrom(_, _, _)
ShuffleFrom(arr, i, js) ==
  IF i <= 1 THEN arr ELSE ShuffleFrom(Swap(arr, i, js[i]), i - 1, js)

\* Fisher-Yates, from the last position down to the second
shuffle(arr, js) == ShuffleFrom(arr, Len(arr), js)

\* arr.slice(0, k), k >= 0
SliceTo(arr, k) == SubSeq(arr, 1, Min(k, Len(arr)))

\* the title extractPostFromFile reads from the file's front matter
PostTitle(f) == <<"Post", f.name>>

PostRequest(f) ==
  [owner |-> Blog[1], repo |-> Blog[2], categoryName |-> generalLower,
   title |-> PostTitle(f), body |-> <<"link">>, labelPrefix |-> LabelAI,
   personas |-> <<PersonaA>>, token |-> UNDEF]

\* file.match(/\.(md|mdx)$/)
MatchesMarkdown(f) == f.ext \in {".md", ".mdx"}

PushDirs == {<<"content">>, <<"_posts">>, <<"src", "posts">>, <<"posts">>, <<"blog">>}

\* file.match(/^(content|_posts|src\/posts|posts|blog)\//)
MatchesBlogDir(f) == \E d \in PushDirs : StartsWith(f.dir, d)

AddedPostsMutModified(commit) ==
  SelectSeq(commit.added \o commit.modified,
            LAMBDA f : MatchesMarkdown(f) /\ MatchesBlogDir(f))

\* the files of commit.added that pass both patterns
AddedPosts(commit) ==
  SelectSeq(commit.added, LAMBDA f : MatchesMarkdown(f) /\ MatchesBlogDir(f))

RECURSIVE PushFiles(_)
PushFiles(commits) ==
  IF commits = <<>> THEN <<>>
  ELSE AddedPosts(Head(commits)) \o PushFiles(Tail(commits))

AddedLists ==
  {<<>>, <<Files[1]>>, <<Files[1], Files[3]>>, <<Files[2], Files[4], Files[5], Files[6]>>}

ModifiedLists == {<<>>, <<Files[3]>>}

Commits == [added : AddedLists, modified : ModifiedLists]

Payloads == UNION {[1..n -> Commits] : n \in 0..MaxCommits}

\* automatic trigger: scan, return when nothing is found, else shuffle and
\* take the first postsPerRun files
AutoBegin(fs, k) ==
  /\ run.step = "idle"
  /\ envToken # UNDEF
  /\ LET allFiles == scanBlogPosts(fs)
         begun == [run EXCEPT !.trigger = "auto", !.found = allFiles,
                              !.postsPerRun = k]
     IN IF Len(allFiles) = 0
        THEN run' = [begun EXCEPT !.step = "ended"]
        ELSE \E js \in Randoms(Len(allFiles)) :
               run' = [begun EXCEPT !.step = "loop",
                                    !.selected = SliceTo(shuffle(allFiles, js), k)]
  /\ UNCHANGED <<sysVars, scanVars, cli>>

\* push trigger: collect the added posts of the commits, return when there
\* is none
PushBegin(commits) ==
  /\ run.step = "idle"
  /\ envToken # UNDEF
  /\ LET files == PushFiles(commits)
         begun == [run EXCEPT !.trigger = "push", !.commits = commits]
     IN IF Len(files) = 0
        THEN run' = [begun EXCEPT !.step = "ended"]
        ELSE run' = [begun EXCEPT !.step = "loop", !.selected = files]
  /\ UNCHANGED <<sysVars, scanVars, cli>>

AwaitedMutNone == TRUE

\* `await generate(...)` of the previous iteration has returned
Awaited == \A q \in Procs : pc[q] \in {"IDLE", "DONE"}

\* one iteration of `for (const file of ...)` up to its call of generate
LoopStep(p) ==
  /\ run.step = "loop"
  /\ Awaited
  /\ ncalls < Len(run.selected)
  /\ Invoke(p, PostRequest(run.selected[ncalls + 1]), Len(run.selected))

\* the loop is through: run() returns
LoopEnd ==
  /\ run.step = "loop"
  /\ Awaited
  /\ ncalls = Len(run.selected)
  /\ run' = [run EXCEPT !.step = "ended"]
  /\ UNCHANGED <<sysVars, scanVars, cli>>

\* generate threw: the catch block of run() marks the run as failed
RunCatch ==
  /\ run.step = "loop"
  /\ \E p \in Procs : pc[p] = "FAILED"
  /\ run' = [run EXCEPT !.step = "ended", !.failed = TRUE]
  /\ UNCHANGED <<sysVars, scanVars, cli>>

NextAction ==
  \/ SetEnvToken
  \/ \E fs \in SUBSET Range(Files), k \in 0..MaxPostsPerRun : AutoBegin(fs, k)
  \/ \E commits \in Payloads : PushBegin(commits)
  \/ LoopEnd
  \/ RunCatch
  \/ \E p \in Procs :
       \/ LoopStep(p)
       \/ Locate(p)
       \/ Resolve(p)
       \/ Create(p)
       \/ Scan(p)
       \/ Write(p)
       \/ Fail(p)

SpecAction == Init /\ [][NextAction]_vars

----------------------------------------------------------------------------
(* SpecPage: a configuration with one persona more than the scanner's page *)
(* holds, published to one post and published again, every remote request  *)
(* succeeding.                                                             *)

Digit == <<"0", "1", "2", "3", "4", "5", "6", "7", "8", "9">>

CrowdPersona(i) ==
  [name |-> <<"p", Digit[(i \div 100) + 1], Digit[((i \div 10) % 10) + 1],
              Digit[(i % 10) + 1]>>,
   text |-> <<"h", "i">>]

Crowd == CommentsFirst + 1

PageRequests ==
  {[owner |-> Blog[1], repo |-> Blog[2], categoryName |-> generalLower,
    title |-> MyPost, body |-> <<"link">>, labelPrefix |-> LabelAI,
    personas |-> ps, token |-> "ghp"] :
     ps \in {[i \in 1..Crowd |-> CrowdPersona(i)], <<CrowdPersona(Crowd)>>,
             <<CrowdPersona(1)>>}}

NextPage ==
  \E p \in SeqProcs :
    \/ \E r \in PageRequests : Start(p, r, PageCalls)
    \/ Locate(p)
    \/ Resolve(p)
    \/ Create(p)
    \/ Scan(p)
    \/ Write(p)

SpecPage == Init /\ [][NextPage]_vars

----------------------------------------------------------------------------
(* SpecScan: the scanner on one discussion whose comments are posted by    *)
(* publishers configured with any label prefix and persona name, and by    *)
(* others (human readers, other tools).                                    *)

LabelBroken == <<"#", "\n">>
ScanLabels == {LabelAI, LabelBot, LabelBroken}

ScanNames == {<<"A">>, <<"B", " ", "b">>, <<" ", "A">>, <<"A", "\t">>, <<>>, <<"A", "\n", "B">>}

TailChars == {"A", " ", "\n"}

\* the texts over TailChars of length at most n
RECURSIVE Texts(_)
Texts(n) ==
  IF n = 0 THEN {<<>>}
  ELSE LET shorter == Texts(n - 1)
       IN shorter \cup {Append(t, c) : t \in shorter, c \in TailChars}

\* how a comment that is not the publisher's may begin
Heads ==
  {<<>>, LabelAI \o PersonaSep, LabelBot \o PersonaSep,
   LabelAI \o SubSeq(PersonaSep, 1, Len(PersonaSep) - 1)}

OtherBodies == {h \o t : h \in Heads, t \in Texts(MaxTail)}

\* a publisher configured with labelPrefix posts persona name's comment
PostComment(labelPrefix, name, text) ==
  /\ Len(scanPage) < MaxPage
  /\ scanPage' = Append(scanPage, FormatComment(labelPrefix, name, text))
  /\ scanMeta' = Append(scanMeta, [formatted |-> TRUE, labelPrefix |-> labelPrefix,
                                   name |-> name])
  /\ scanOut' = {}
  /\ UNCHANGED <<scanLabel, sysVars, hostVars>>

\* somebody else posts a comment
PostOther(body) ==
  /\ Len(scanPage) < MaxPage
  /\ scanPage' = Append(scanPage, body)
  /\ scanMeta' = Append(scanMeta, [formatted |-> FALSE, labelPrefix |-> <<>>,
                                   name |-> <<>>])
  /\ scanOut' = {}
  /\ UNCHANGED <<scanLabel, sysVars, hostVars>>

\* getDiscussionBotComments(discussionId, labelPrefix)
RunScan(labelPrefix) ==
  /\ scanOut = {}
  /\ scanLabel' = labelPrefix
  /\ scanOut' = {getDiscussionBotComments(FirstN(scanPage, CommentsFirst), labelPrefix)}
  /\ UNCHANGED <<scanPage, scanMeta, sysVars, hostVars>>

NextScan ==
  \/ \E l \in ScanLabels, n \in ScanNames : PostComment(l, n, <<"h", "i">>)
  \/ \E b \in OtherBodies : PostOther(b)
  \/ \E l \in ScanLabels : RunScan(l)

SpecScan == Init /\ [][NextScan]_vars

----------------------------------------------------------------------------
(* Claims *)

CreatesIn(p) == {i \in DOMAIN calls[p] : calls[p][i].op = "createDiscussion"}

\* C1 (as claimed): once a find-or-create call for (owner, repo, T) has completed,
\* every later call with the same owner, repo and T returns that same discussion
\* id and url and issues no createDiscussion mutation.
C1_IdempotentDiscovery ==
  \A p \in Procs :
    known[p] # 0 =>
      /\ CreatesIn(p) = {}
      /\ disc[p] # Null => disc[p] = [id |-> known[p], url |-> Url(known[p])]

\* C2 (as claimed): in every state reachable by publication calls made one after
\* another, aborted ones included, each (repo, title) pair has at most one discussion.
C2_AtMostOneDiscussion ==
  \A i, j \in DOMAIN discussions :
    (discussions[i].repoId = discussions[j].repoId
       /\ discussions[i].title = discussions[j].title) => i = j

LabelPrefixes == {LabelAI, LabelBot}

\* the persona name a comment body carries under labelPrefix (spec 3, Data model:
\* a BotComment's body begins with "<prefix> · Persona: <name>"); <<>> when the body
\* does not begin with the prefix
BotCommentName(body, labelPrefix) ==
  IF StartsWith(body, labelPrefix \o PersonaSep)
  THEN Slice(FirstLine(body), Len(labelPrefix \o PersonaSep))
  ELSE <<>>

\* the persona name of each comment of discussion id under labelPrefix
BotCommentNames(id, labelPrefix) ==
  [i \in DOMAIN discussions[id].comments |->
     BotCommentName(discussions[id].comments[i].body, labelPrefix)]

Occurrences(seq, x) == Cardinality({i \in DOMAIN seq : seq[i] = x})

\* C3 (as claimed): in every state reachable by publication calls, each discussion
\* holds at most one BotComment for each persona name.
C3_AtMostOneCommentPerPersona ==
  \A id \in DOMAIN discussions : \A l \in LabelPrefixes :
    LET names == BotCommentNames(id, l)
    IN \A n \in Range(names) \ {<<>>} : Occurrences(names, n) <= 1

WritesFor(p, n) ==
  {i \in DOMAIN calls[p] :
     calls[p][i].op = "addDiscussionComment" /\ calls[p][i].persona = n}

HasScanned(p) == \E i \in DOMAIN calls[p] : calls[p][i].op = "comments"

\* C4 (as claimed): when the discussion already has a BotComment for a requested
\* persona P at invocation, P is reported in skipped, never in published, and no
\* addComment call is issued for P in that invocation.  (The discussion had a
\* BotComment of P before the invocation wrote anything when it holds more of them
\* than the invocation has published.)
C4_NoDuplicateInOneCall ==
  \A p \in Procs :
    HasScanned(p) =>
      LET names == BotCommentNames(disc[p].id, req[p].labelPrefix)
      IN \A n \in Range(Names(req[p].personas)) :
           Occurrences(names, n) > Occurrences(published[p], n) =>
             /\ n \in Range(skipped[p])
             /\ n \notin Range(published[p])
             /\ WritesFor(p, n) = {}

\* the names of ps that are in the set S (keep = TRUE) or not in it, in order
RECURSIVE Selected(_, _, _)
Selected(ps, S, keep) ==
  IF ps = <<>> THEN <<>>
  ELSE IF (Head(ps).name \in S) = keep
       THEN <<Head(ps).name>> \o Selected(Tail(ps), S, keep)
       ELSE Selected(Tail(ps), S, keep)

WriteCalls(p) ==
  LET IsWrite(c) == c.op = "addDiscussionComment"
      ws == SelectSeq(calls[p], IsWrite)
  IN [i \in DOMAIN ws |-> ws[i].persona]

\* the last n comments of discussion id
LastComments(id, n) ==
  SubSeq(discussions[id].comments, Len(discussions[id].comments) - n + 1,
         Len(discussions[id].comments))

\* C5: a successful call writes exactly one comment for each requested persona
\* not in the scanned set, in the caller-supplied order; published is the list of
\* those personas in that order and skipped the requested personas in the scanned
\* set; published and skipped are disjoint and together cover the request list.
C5_PartialPublish ==
  \A p \in Procs :
    pc[p] = "DONE" =>
      LET ps == req[p].personas
          out == Selected(ps, scanned[p], FALSE)
          outPs == PersonasToWrite(ps, scanned[p])
      IN /\ published[p] = out
         /\ skipped[p] = Selected(ps, scanned[p], TRUE)
         /\ WriteCalls(p) = out
         /\ Len(discussions[disc[p].id].comments) >= Len(out)
         /\ LastComments(disc[p].id, Len(out)) =
              [i \in DOMAIN out |->
                 [body |-> FormatComment(req[p].labelPrefix, outPs[i].name, outPs[i].text),
                  replyTo |-> 0]]
         /\ Range(published[p]) \cap Range(skipped[p]) = {}
         /\ Range(published[p]) \cup Range(skipped[p]) = Range(Names(ps))
         /\ Len(published[p]) + Len(skipped[p]) = Len(ps)

C5_Witness ==
  \E p \in Procs :
    /\ pc[p] = "DONE"
    /\ Names(req[p].personas) = <<PersonaA.name, PersonaB.name, PersonaC.name>>
    /\ scanned[p] = {PersonaA.name}
    /\ published[p] = <<PersonaB.name, PersonaC.name>>
    /\ skipped[p] = <<PersonaA.name>>

SearchCalls(p) == {i \in DOMAIN calls[p] : calls[p][i].op = "search"}

\* C6: findDiscussion returns a discussion only if its title is exactly the
\* requested title (and it lies in the requested repository); a discussion whose
\* title merely contains the requested title is never returned.
C6_ExactTitle ==
  \A p \in Procs :
    /\ \A i \in SearchCalls(p) :
         calls[p][i].id # 0 =>
           /\ calls[p][i].id \in DOMAIN discussions
           /\ discussions[calls[p][i].id].title = req[p].title
           /\ discussions[calls[p][i].id].repoId = RepoId(<<req[p].owner, req[p].repo>>)
    /\ disc[p] # Null =>
         /\ discussions[disc[p].id].title = req[p].title
         /\ disc[p].url = Url(disc[p].id)

\* a search for "My Post" whose results held only "My Post 2" found nothing
C6_Witness ==
  \E p \in Procs :
    /\ req[p].title = MyPost
    /\ pc[p] = "RESOLVING"
    /\ \E i \in SearchCalls(p) : calls[p][i].id = 0
    /\ SearchHits(discussions, <<req[p].owner, req[p].repo>>, MyPost) # {}
    /\ \A d \in SearchHits(discussions, <<req[p].owner, req[p].repo>>, MyPost) :
         discussions[d].title = MyPost2

\* s without its leading and trailing white space
Trimmed(s) ==
  LET solid == {k \in DOMAIN s : s[k] \notin WhiteSpace}
  IN IF solid = {} THEN <<>>
     ELSE SubSeq(s, CHOOSE k \in solid : \A m \in solid : k <= m,
                    CHOOSE k \in solid : \A m \in solid : m <= k)

\* what follows the first n characters on the first line of body
RestOfFirstLine(body, n) ==
  LET breaks == {k \in DOMAIN body : body[k] = "\n"}
      end == IF breaks = {} THEN Len(body)
             ELSE (CHOOSE k \in breaks : \A m \in breaks : k <= m) - 1
  IN SubSeq(body, n + 1, end)

ScanPrefix == scanLabel \o PersonaSep

\* C7: the scan returns exactly the set of trimmed remainders of the first line
\* after the prefix, over the comments whose body starts with exactly
\* "<labelPrefix> · Persona: " and whose trimmed remainder is non-empty; comments
\* with a different or missing prefix contribute nothing.
C7_ScannerResult ==
  \A names \in scanOut :
    /\ \A n \in names :
         \E i \in DOMAIN scanPage :
           /\ StartsWith(scanPage[i], ScanPrefix)
           /\ n = Trimmed(RestOfFirstLine(scanPage[i], Len(ScanPrefix)))
           /\ n # <<>>
    /\ \A i \in DOMAIN scanPage :
         (StartsWith(scanPage[i], ScanPrefix)
            /\ Trimmed(RestOfFirstLine(scanPage[i], Len(ScanPrefix))) # <<>>)
           => Trimmed(RestOfFirstLine(scanPage[i], Len(ScanPrefix))) \in names

\* a page with a comment of another label prefix and a labelled comment whose
\* name is surrounded by white space
C7_Witness ==
  /\ scanOut = {{<<"A">>}}
  /\ scanLabel = LabelAI
  /\ Len(scanPage) = 2
  /\ StartsWith(scanPage[1], LabelBot \o PersonaSep)
  /\ scanPage[2] = FormatComment(LabelAI, <<" ", "A">>, <<"h", "i">>)

\* C8 (as claimed): for every label prefix, persona name and text, scanning the
\* comment the publisher formatted with the same label prefix yields {personaName}.
C8_RoundTripAnyName ==
  \A names \in scanOut :
    (Len(scanPage) = 1 /\ scanMeta[1].formatted /\ scanMeta[1].labelPrefix = scanLabel)
      => names = {scanMeta[1].name}

\* a label prefix or persona name the wire format carries unchanged: non-empty
\* (the name), on one line, without leading or trailing white space (the name)
OneLine(s) == \A k \in DOMAIN s : s[k] # "\n"
PlainName(s) == s # <<>> /\ OneLine(s) /\ s[1] \notin WhiteSpace /\ s[Len(s)] \notin WhiteSpace

\* C8 (amended): for every label prefix without a line break, every persona name
\* that is non-empty, has no line break and no leading or trailing white space,
\* and every text, scanning a discussion that holds the comment the publisher
\* formatted with the same label prefix yields a set that contains personaName,
\* and exactly {personaName} when it is the only comment.
C8_RoundTrip ==
  \A names \in scanOut :
    \A i \in DOMAIN scanPage :
      (scanMeta[i].formatted /\ scanMeta[i].labelPrefix = scanLabel
         /\ OneLine(scanLabel) /\ PlainName(scanMeta[i].name))
        => /\ scanMeta[i].name \in names
           /\ Len(scanPage) = 1 => names = {scanMeta[i].name}

C8_Witness ==
  /\ scanOut = {{<<"B", " ", "b">>}}
  /\ Len(scanPage) = 1
  /\ scanMeta[1].formatted
  /\ scanMeta[1].labelPrefix = scanLabel
  /\ scanMeta[1].name = <<"B", " ", "b">>

CategoryNames(ownerRepo) ==
  {RemoteCategories(ownerRepo)[i].name : i \in DOMAIN RemoteCategories(ownerRepo)}

WritesIn(p) ==
  {i \in DOMAIN calls[p] : calls[p][i].op \in {"createDiscussion", "addDiscussionComment"}}

CategoryMissed(p) == pc[p] = "FAILED" /\ err[p].kind = "category"

\* C9: when the requested category name matches none of the repository's
\* categories, the resolver fails with an error whose message contains the name of
\* every available category, and the find-or-create call creates no discussion:
\* the step that fails leaves the remote state unchanged, the call has issued no
\* mutation, and a call reaches createDiscussion only with a matching category.
C9_CategoryMiss ==
  /\ [](\A p \in Procs :
          /\ CategoryMissed(p) =>
               /\ \A n \in CategoryNames(<<req[p].owner, req[p].repo>>) :
                    Includes(err[p].message, n)
               /\ WritesIn(p) = {}
               /\ disc[p] = Null
               /\ \A n \in CategoryNames(<<req[p].owner, req[p].repo>>) :
                    ToLowerCase(n) # ToLowerCase(req[p].categoryName)
          /\ (pc[p] = "CREATING" \/ CreatesIn(p) # {}) =>
               \E n \in CategoryNames(<<req[p].owner, req[p].repo>>) :
                 ToLowerCase(n) = ToLowerCase(req[p].categoryName))
  /\ [][\A p \in Procs :
          (pc[p] = "RESOLVING" /\ pc'[p] = "FAILED" /\ err'[p].kind = "category")
            => discussions' = discussions]_vars

C9_Witness ==
  \E p \in Procs :
    /\ CategoryMissed(p)
    /\ req[p].categoryName = Nonexistent
    /\ <<req[p].owner, req[p].repo>> = Blog
    /\ Cardinality(CategoryNames(Blog)) = 2

\* C10: every createDiscussion mutation is preceded, in the same invocation, by
\* a search for the same owner, repo and title that returned not found, and an
\* invocation issues createDiscussion at most once.
C10_SearchBeforeCreate ==
  \A p \in Procs :
    /\ Cardinality(CreatesIn(p)) <= 1
    /\ \A i \in CreatesIn(p) :
         \E j \in SearchCalls(p) :
           /\ j < i
           /\ calls[p][j].id = 0
           /\ calls[p][j].owner = calls[p][i].owner
           /\ calls[p][j].repo = calls[p][i].repo
           /\ calls[p][j].title = calls[p][i].title
           /\ discussions[calls[p][i].id].title = calls[p][j].title
           /\ discussions[calls[p][i].id].repoId = RepoId(<<calls[p][j].owner, calls[p][j].repo>>)

C10_Witness ==
  \E p \in Procs : CreatesIn(p) # {} /\ pc[p] = "DONE"

\* the steps that may follow a step of the per-request state machine; FOUND is
\* the move from LOCATING to SCANNING, and the CREATING branch is the category
\* lookup followed by the createDiscussion mutation
StepsAfter(step) ==
  CASE step = "IDLE" -> {"LOCATING"}
    [] step = "LOCATING" -> {"SCANNING", "RESOLVING", "FAILED", "ABORTED"}
    [] step = "RESOLVING" -> {"CREATING", "FAILED", "ABORTED"}
    [] step = "CREATING" -> {"SCANNING", "FAILED", "ABORTED"}
    [] step = "SCANNING" -> {"PUBLISHING", "DONE", "FAILED", "ABORTED"}
    [] step = "PUBLISHING" -> {"PUBLISHING", "DONE", "FAILED", "ABORTED"}
    [] OTHER -> {"LOCATING"}

\* the request c may directly follow the request b in one invocation's log
MayFollow(b, c) ==
  CASE c.op = "repository" -> b.op = "search" /\ b.id = 0
    [] c.op = "createDiscussion" -> b.op = "repository"
    [] c.op = "comments" ->
         b.op \in {"search", "createDiscussion"} /\ b.id # 0 /\ c.id = b.id
    [] c.op = "addDiscussionComment" ->
         b.op \in {"comments", "addDiscussionComment"} /\ c.id = b.id
    [] OTHER -> FALSE

LastCall(p) == calls[p][Len(calls[p])]

\* what an invocation at a step has completed
Completed(p) ==
  CASE pc[p] = "LOCATING" -> calls[p] = <<>>
    [] pc[p] = "RESOLVING" -> Len(calls[p]) = 1 /\ disc[p] = Null
    [] pc[p] = "CREATING" -> LastCall(p).op = "repository" /\ disc[p] = Null
    [] pc[p] = "SCANNING" ->
         /\ LastCall(p).op \in {"search", "createDiscussion"}
         /\ disc[p].id # 0
         /\ LastCall(p).id = disc[p].id
    [] pc[p] = "PUBLISHING" ->
         /\ LastCall(p).op \in {"comments", "addDiscussionComment"}
         /\ LastCall(p).id = disc[p].id
         /\ todo[p] # <<>>
    [] pc[p] = "DONE" ->
         /\ LastCall(p).op \in {"comments", "addDiscussionComment"}
         /\ LastCall(p).id = disc[p].id
         /\ todo[p] = <<>>
    [] OTHER -> TRUE

\* C11: every invocation follows LOCATING -> {FOUND | CREATING} -> SCANNING ->
\* PUBLISHING(0..n) -> DONE: its remote requests begin with the search, the scan
\* reads the located-or-created discussion directly after step 1 and before the
\* first comment write, every comment write goes to that discussion, and each
\* step begins from the completed previous step and issues at most one request.
C11_StepOrder ==
  /\ [](\A p \in Procs :
          /\ calls[p] # <<>> => calls[p][1].op = "search"
          /\ \A i \in 2..Len(calls[p]) : MayFollow(calls[p][i - 1], calls[p][i])
          /\ Completed(p))
  /\ [][\A p \in Procs :
          /\ pc'[p] # pc[p] => pc'[p] \in StepsAfter(pc[p])
          /\ pc'[p] # "LOCATING" =>
               \/ calls'[p] = calls[p]
               \/ /\ Len(calls'[p]) = Len(calls[p]) + 1
                  /\ SubSeq(calls'[p], 1, Len(calls[p])) = calls[p]
                  /\ pc[p] \in Active
                  /\ pc'[p] # "ABORTED"
                  /\ pc'[p] = "FAILED" => pc[p] = "RESOLVING"]_vars

\* a call that searched, resolved, created, scanned and wrote two comments
C11_Witness ==
  \E p \in Procs :
    /\ pc[p] = "DONE"
    /\ [i \in DOMAIN calls[p] |-> calls[p][i].op] =
         <<"search", "repository", "createDiscussion", "comments",
           "addDiscussionComment", "addDiscussionComment">>

\* the comments an invocation has written, as they must stand in the store
Written(p) ==
  LET outPs == PersonasToWrite(req[p].personas, scanned[p])
  IN [i \in DOMAIN published[p] |->
        [body |-> FormatComment(req[p].labelPrefix, outPs[i].name, outPs[i].text),
         replyTo |-> 0]]

\* C12: when a step of a request fails, the failure is what the caller gets (the
\* category error with the resolver's message, unmodified), the failing step and
\* everything after it write nothing (no persona after the failure point is
\* attempted, no request is issued), and the discussion and the comments the
\* request had already written remain in the remote store.
C12_AbortWithoutRollback ==
  /\ [](\A p \in Procs :
          /\ err[p] # NoErr => pc[p] = "FAILED"
          /\ pc[p] = "FAILED" =>
               /\ err[p].kind \in {"token", "category", "remote"}
               /\ err[p].kind = "category" =>
                    err[p].message =
                      getRepoInfo(Repository(<<req[p].owner, req[p].repo>>),
                                  req[p].categoryName).message
               /\ WriteCalls(p) = published[p]
               /\ \A i \in CreatesIn(p) :
                    /\ calls[p][i].id \in DOMAIN discussions
                    /\ discussions[calls[p][i].id].title = req[p].title
                    /\ discussions[calls[p][i].id].body = req[p].body
               /\ published[p] # <<>> =>
                    /\ Len(discussions[disc[p].id].comments) >= Len(published[p])
                    /\ LastComments(disc[p].id, Len(published[p])) = Written(p))
  /\ [][\A p \in Procs :
          /\ (pc[p] # "FAILED" /\ pc'[p] = "FAILED") =>
               /\ discussions' = discussions
               /\ published'[p] = published[p]
               /\ todo'[p] = todo[p]
          /\ (pc[p] = "FAILED" /\ pc'[p] = "FAILED") =>
               /\ calls'[p] = calls[p]
               /\ err'[p] = err[p]
               /\ discussions' = discussions]_vars

\* a call failed after creating the discussion and writing the first of two comments
C12_Witness ==
  \E p \in Procs :
    /\ pc[p] = "FAILED"
    /\ err[p].kind = "remote"
    /\ CreatesIn(p) # {}
    /\ Len(published[p]) = 1
    /\ Len(todo[p]) = 1
    /\ Len(discussions[disc[p].id].comments) = 1

\* the discussions of the request's repository that carry the request's title
TitleMatches(r) ==
  {i \in DOMAIN discussions :
     /\ discussions[i].repoId = RepoId(<<r.owner, r.repo>>)
     /\ discussions[i].title = r.title}

\* C13 (as claimed): when an invocation for (owner, repo, title) was interrupted
\* between two steps, a later invocation for it that runs to completion ends
\* with exactly one discussion of that title in the repository and, the
\* discussion holding no more comments than the scan's page, exactly one
\* BotComment for each requested persona.
C13_SafeRerun ==
  \A p \in Procs :
    (pc[p] = "DONE" /\ Key(req[p]) \in crashed) =>
      /\ Cardinality(TitleMatches(req[p])) = 1
      /\ Len(discussions[disc[p].id].comments) <= CommentsFirst =>
           \A i \in DOMAIN req[p].personas :
             Occurrences(BotCommentNames(disc[p].id, req[p].labelPrefix),
                         req[p].personas[i].name) = 1

\* C14 (as claimed): in a run that processes several posts, when the publication
\* of one post has failed and selected posts remain, the run goes on to attempt
\* the next selected post.
C14_FailureIsolation ==
  \A p \in SeqProcs :
    (pc[p] = "FAILED" /\ ncalls < PostsPerRun) => ENABLED RunStep(p)

\* C15: every comment the system adds is a top-level comment: each comment in
\* the store (all of them added by the system) replies to none, and every
\* step that adds to a discussion appends exactly one such comment.
C15_TopLevelOnly ==
  /\ [](\A id \in DOMAIN discussions :
          \A i \in DOMAIN discussions[id].comments :
            discussions[id].comments[i].replyTo = 0)
  /\ [][\A id \in DOMAIN discussions :
          discussions'[id].comments # discussions[id].comments =>
            /\ Len(discussions'[id].comments) = Len(discussions[id].comments) + 1
            /\ discussions'[id].comments[Len(discussions'[id].comments)].replyTo = 0]_vars

\* a discussion to which two personas' comments were added
C15_Witness ==
  \E id \in DOMAIN discussions :
    /\ Len(discussions[id].comments) = 2
    /\ \E p \in Procs : disc[p].id = id /\ Len(published[p]) = 2

NoCredential(p) == req[p].token = UNDEF /\ envToken = UNDEF

\* C16: when no token is passed and GISCUS_BOT_GITHUB_TOKEN is unset, the call
\* fails with the missing-token error when the client is constructed, before
\* any remote request: the invocation issues no request, locates and creates
\* nothing, and its failing step leaves the remote state unchanged.
C16_MissingCredential ==
  /\ [](\A p \in Procs :
          /\ (NoCredential(p) /\ pc[p] # "IDLE") =>
               /\ pc[p] \in {"LOCATING", "FAILED", "ABORTED"}
               /\ calls[p] = <<>>
               /\ disc[p] = Null
               /\ pc[p] = "FAILED" => err[p].kind = "token"
          /\ err[p].kind = "token" =>
               NoCredential(p) /\ calls[p] = <<>> /\ pc[p] = "FAILED")
  /\ [][\A p \in Procs :
          (NoCredential(p) /\ pc[p] = "LOCATING" /\ pc'[p] = "FAILED") =>
            /\ discussions' = discussions
            /\ calls'[p] = <<>>
            /\ err'[p].kind = "token"]_vars

\* a call without credential failed while the store holds an earlier discussion
C16_Witness ==
  \E p \in Procs :
    /\ pc[p] = "FAILED"
    /\ err[p].kind = "token"
    /\ NoCredential(p)
    /\ discussions # <<>>

\* C17 (as claimed): when two publications to one repository whose remote
\* requests interleaved have both ended, the repository holds at most one
\* discussion per title and each discussion at most one BotComment per persona.
C17_ConcurrentPublications ==
  (\A p \in Procs : pc[p] = "DONE") =>
    /\ \A p \in Procs : Cardinality(TitleMatches(req[p])) <= 1
    /\ \A p \in Procs : \A i \in DOMAIN req[p].personas :
         Occurrences(BotCommentNames(disc[p].id, req[p].labelPrefix),
                     req[p].personas[i].name) <= 1

\* the read a write decision rests on: the search for a createDiscussion, the
\* scan of the discussion for an addDiscussionComment
ReadFor(p, i, j) ==
  IF calls[p][i].op = "createDiscussion"
  THEN calls[p][j].op = "search" /\ calls[p][j].title = calls[p][i].title
  ELSE calls[p][j].op = "comments" /\ calls[p][j].id = calls[p][i].id

\* C18 (as claimed): every write of an invocation, the createDiscussion and each
\* persona's comment, directly follows the read of the state it is decided on,
\* with no other remote request of the invocation in between.
C18_FreshRead ==
  \A p \in Procs : \A i \in WritesIn(p) : i > 1 /\ ReadFor(p, i, i - 1)

\* C18 (amended): every write of an invocation is decided on a read made
\* earlier in the same invocation: createDiscussion on the search that found no
\* discussion of the title, with only the category lookup in between; each
\* persona's comment on the one scan of the discussion, which did not show
\* that persona, with only the invocation's own comment writes in between.
C18_ReadBeforeWrite ==
  \A p \in Procs : \A i \in WritesIn(p) :
    \E j \in 1..(i - 1) :
      /\ ReadFor(p, i, j)
      /\ \A k \in (j + 1)..(i - 1) :
           calls[p][k].op = IF calls[p][i].op = "createDiscussion"
                            THEN "repository" ELSE "addDiscussionComment"
      /\ IF calls[p][i].op = "createDiscussion"
         THEN calls[p][j].id = 0 /\ i - j = 2
         ELSE calls[p][i].persona \notin scanned[p]

\* a call created the discussion through the lookup and wrote three comments on one scan
C18_Witness ==
  \E p \in Procs :
    /\ CreatesIn(p) # {}
    /\ Len(WriteCalls(p)) = 3
    /\ Cardinality({i \in DOMAIN calls[p] : calls[p][i].op = "comments"}) = 1

\* the Locator found a discussion: the invocation's search returned an id
Found(p) == calls[p] # <<>> /\ calls[p][1].op = "search" /\ calls[p][1].id # 0

\* C19: when the Locator finds a discussion, the call returns that discussion's
\* id and url and issues neither the repository/category lookup nor
\* createDiscussion; the category named by the request is not looked at, so the
\* call does not fail on a category that does not exist.
C19_ReuseWithoutResolve ==
  \A p \in Procs :
    Found(p) =>
      /\ disc[p] = [id |-> calls[p][1].id, url |-> Url(calls[p][1].id)]
      /\ discussions[disc[p].id].title = req[p].title
      /\ \A i \in DOMAIN calls[p] :
           calls[p][i].op \notin {"repository", "createDiscussion"}
      /\ repoInfo[p] = NoRepoInfo
      /\ err[p].kind # "category"

\* a request naming a category that does not exist was published to the
\* discussion an earlier call created
C19_Witness ==
  \E p \in Procs :
    /\ Found(p)
    /\ req[p].categoryName = Nonexistent
    /\ pc[p] = "DONE"
    /\ published[p] # <<>>

IsPrefix(s, t) == Len(s) <= Len(t) /\ SubSeq(t, 1, Len(s)) = s

\* C20: no step deletes or modifies a discussion or a comment: every step keeps
\* each existing discussion with its repository, title, body and category and
\* keeps its comments as a prefix of the new comment list; this includes the
\* steps of a call that publishes again to an existing discussion with a
\* different body or category in its request.
C20_AppendOnly ==
  [][/\ Len(discussions') >= Len(discussions)
     /\ \A id \in DOMAIN discussions :
          /\ discussions'[id].repoId = discussions[id].repoId
          /\ discussions'[id].title = discussions[id].title
          /\ discussions'[id].body = discussions[id].body
          /\ discussions'[id].categoryId = discussions[id].categoryId
          /\ IsPrefix(discussions[id].comments, discussions'[id].comments)]_vars

\* a post created with one body and category was published again, to that
\* discussion, by a request carrying the other body and the other category
C20_Witness ==
  \E p \in Procs :
    /\ Found(p)
    /\ pc[p] = "DONE"
    /\ published[p] # <<>>
    /\ Len(discussions[disc[p].id].comments) = 2
    /\ req[p].body = BodyEdited
    /\ discussions[disc[p].id].body = <<"link">>
    /\ req[p].categoryName = blogCommentsLower
    /\ discussions[disc[p].id].categoryId = "C_11"

\* C21: when no node of a search result carries exactly the requested title
\* (the empty result included), findDiscussion returns null and raises nothing,
\* and the find-or-create call goes on, without error, to resolve the category
\* and create the discussion.
C21_NotFoundIsValue ==
  /\ [](/\ \A r \in Repos, t \in Titles :
            \A page \in SearchPages(discussions, r, t) :
              (\A i \in DOMAIN page : discussions[page[i]].title # t) =>
                findDiscussion(SearchNodes(discussions, page), t) = Null
         /\ \A p \in Procs :
              (Len(calls[p]) = 1 /\ calls[p][1].id = 0 /\ pc[p] \in Active) =>
                pc[p] = "RESOLVING" /\ err[p] = NoErr /\ disc[p] = Null)
  /\ [][\A p \in Procs :
          (pc[p] = "LOCATING" /\ calls'[p] # calls[p] /\ calls'[p][1].id = 0) =>
            pc'[p] = "RESOLVING" /\ err'[p] = NoErr]_vars

\* the search of an empty repository returned no result and the call created
\* the first discussion
C21_Witness ==
  \E p \in Procs :
    /\ calls[p] # <<>>
    /\ calls[p][1].id = 0
    /\ CreatesIn(p) # {}
    /\ Len(discussions) = 1
    /\ pc[p] = "SCANNING"

\* the positions of the repository's categories whose name equals the requested
\* name ignoring letter case
CategoryHits(r) ==
  LET cats == RemoteCategories(<<r.owner, r.repo>>)
  IN {i \in DOMAIN cats : ToLowerCase(cats[i].name) = ToLowerCase(r.categoryName)}

Resolved(p) == \E i \in DOMAIN calls[p] : calls[p][i].op = "repository"

\* C22: when the repository has a category whose name equals the requested name
\* ignoring letter case, getRepoInfo returns the repository id with the id of
\* the first such category in remote order (and the discussion is created with
\* them); it fails exactly when the repository has no such category.
C22_CategoryResolution ==
  \A p \in Procs :
    Resolved(p) =>
      LET cats == RemoteCategories(<<req[p].owner, req[p].repo>>)
          hit == CategoryHits(req[p])
      IN IF hit = {}
         THEN CategoryMissed(p)
         ELSE /\ ~CategoryMissed(p)
              /\ repoInfo[p].ok
              /\ repoInfo[p].repoId = RepoId(<<req[p].owner, req[p].repo>>)
              /\ \E i \in hit :
                   /\ \A j \in hit : i <= j
                   /\ repoInfo[p].categoryId = cats[i].id
              /\ \A i \in CreatesIn(p) :
                   /\ discussions[calls[p][i].id].categoryId = repoInfo[p].categoryId
                   /\ discussions[calls[p][i].id].repoId = repoInfo[p].repoId

\* "GEN" was resolved in a repository whose categories are "gen" and "Gen"
C22_Witness ==
  \E p \in Procs :
    /\ Resolved(p)
    /\ req[p].categoryName = GENERAL
    /\ req[p].repo = <<generalLower, General>>
    /\ repoInfo[p].categoryId = CategoryIds[1]
    /\ CreatesIn(p) # {}

\* the ids of the comment reads and writes of an invocation
CommentCallIds(p) ==
  {calls[p][i].id : i \in {k \in DOMAIN calls[p] :
                             calls[p][k].op \in {"comments", "addDiscussionComment"}}}

\* C23: when several discussions of a search result carry exactly the requested
\* title, findDiscussion returns the first of them in result order and raises
\* nothing, and the publication scans and comments on that discussion only:
\* its comment requests name that id and its steps change no other discussion.
C23_FirstMatchWins ==
  /\ [](/\ \A page \in SearchPages(discussions, Blog, MyPost) :
            LET nodes == SearchNodes(discussions, page)
                hit == {i \in DOMAIN nodes : nodes[i].title = MyPost}
            IN hit # {} =>
                 \E i \in hit :
                   /\ \A j \in hit : i <= j
                   /\ findDiscussion(nodes, MyPost) = [id |-> nodes[i].id, url |-> nodes[i].url]
         /\ \A p \in Procs :
              Found(p) =>
                /\ calls[p][1].id \in TitleMatches(req[p])
                /\ disc[p].id = calls[p][1].id
                /\ CommentCallIds(p) \subseteq {calls[p][1].id}
                /\ err[p] = NoErr)
  /\ [][\A p \in Procs :
          (Found(p) /\ calls'[p] # calls[p] /\ pc[p] \in {"SCANNING", "PUBLISHING"}) =>
            \A id \in DOMAIN discussions :
              id # disc[p].id => discussions'[id] = discussions[id]]_vars

\* a publication found one of two discussions of its title and commented on it,
\* the other holding no comment
C23_Witness ==
  \E p \in Procs :
    /\ Found(p)
    /\ pc[p] = "DONE"
    /\ published[p] # <<>>
    /\ Cardinality(TitleMatches(req[p])) = 2
    /\ \E id \in TitleMatches(req[p]) :
         id # disc[p].id /\ discussions[id].comments = <<>>

\* the page in the order f
Reordered(page, f) == [i \in DOMAIN page |-> page[f[i]]]

\* C24: the scan of a page returns the same set of persona names for every
\* ordering of the page's comments, and a persona appears in it once however
\* many labelled comments it has: the page with each comment repeated scans
\* to the same set.
C24_ScanOrderInsensitive ==
  scanOut # {} =>
    /\ \A f \in Permutations(DOMAIN scanPage) :
         getDiscussionBotComments(Reordered(scanPage, f), scanLabel) \in scanOut
    /\ getDiscussionBotComments(scanPage \o scanPage, scanLabel) \in scanOut

\* a page holding a reader's comment before persona A's comment was scanned
C24_Witness ==
  /\ scanOut = {{<<"A">>}}
  /\ scanLabel = LabelAI
  /\ Len(scanPage) = 2
  /\ ~scanMeta[1].formatted
  /\ scanMeta[2].formatted
  /\ scanMeta[2].name = <<"A">>

\* C25: the generate command run without --dry-run and with no repository,
\* neither from --repo nor from the configuration, exits with status 1 with no
\* provider created, the pipeline not invoked and nothing published; run with
\* a repository or with --dry-run it is not rejected for its repository (an
\* empty repository is accepted with --dry-run).
C25_RepoGuard ==
  cli.step # "idle" =>
    /\ cli.rejected <=> (~cli.dryRun /\ Falsy(cli.optRepo) /\ Falsy(cli.cfgRepo))
    /\ cli.rejected =>
         /\ cli.step = "exited" /\ cli.exitCode = 1
         /\ ~cli.provider /\ ~cli.generate
         /\ ncalls = 0 /\ discussions = <<>>
    /\ cli.generate => cli.provider /\ ~cli.rejected
    /\ ncalls > 0 => cli.generate /\ ~cli.dryRun

\* a run rejected for its repository although the configuration file was read
C25_Witness ==
  /\ cli.rejected /\ cli.exitCode = 1 /\ cli.optRepo = UNDEF /\ cli.cfgRepo = ""

\* the files a run has processed so far: the loop takes the selected files in
\* order, one invocation each
Processed == SubSeq(run.selected, 1, ncalls)

\* C26 (as claimed): a run of the automatic trigger that found N files with
\* postsPerRun = k has, when it ends, processed exactly min(k, N) files, all
\* of them found files and no file twice; with N = 0 it processes nothing and
\* does not fail.
C26_Selection ==
  (run.trigger = "auto" /\ run.step = "ended") =>
    /\ Len(Processed) = Min(run.postsPerRun, Len(run.found))
    /\ \A i \in DOMAIN Processed : Processed[i] \in Range(run.found)
    /\ \A i, j \in DOMAIN Processed : Processed[i] = Processed[j] => i = j
    /\ Len(run.found) = 0 => (ncalls = 0 /\ ~run.failed)

\* the file is listed as added by some commit of the push
AddedInPush(f) == \E c \in DOMAIN run.commits : f \in Range(run.commits[c].added)

\* the file ends in .md or .mdx and lies under one of the five directories
IsBlogPost(f) ==
  /\ f.ext = ".md" \/ f.ext = ".mdx"
  /\ Len(f.dir) > 0
  /\ \/ f.dir[1] \in {"content", "_posts", "posts", "blog"}
     \/ Len(f.dir) > 1 /\ f.dir[1] = "src" /\ f.dir[2] = "posts"

Qualifies(f) == AddedInPush(f) /\ IsBlogPost(f)

InFlight == {p \in Procs : pc[p] \in Active}

\* C28: in a run of the action at most one publication is in flight at any
\* time, and the publication of the next post starts only when none is in
\* flight and the publication of the post before it has completed.
C28_Sequential ==
  /\ [](Cardinality(InFlight) <= 1)
  /\ [][(ncalls' = ncalls + 1 /\ ncalls > 0) =>
          /\ InFlight = {}
          /\ \E q \in Procs :
               pc[q] = "DONE" /\ req[q] = PostRequest(run.selected[ncalls])]_vars

\* the second post of a run is being published, the first one is published
C28_Witness ==
  /\ run.step = "loop" /\ ncalls = 2
  /\ Cardinality(InFlight) = 1
  /\ \E id \in DOMAIN discussions :
       /\ discussions[id].title = PostTitle(run.selected[1])
       /\ Len(discussions[id].comments) = 1

====
